---- MODULE Spec2Model ----
(***************************************************************************)
(* A model of the foodgram backend (backend/api, backend/recipes): the     *)
(* relational store, the recipe mutation serializer, the favorite /        *)
(* shopping-cart / follow endpoints and the shopping-list aggregation.      *)
(*                                                                         *)
(* The store is one record `db` (one field per table).  A request is put   *)
(* in flight by Receive and then handled by the view it addresses; the     *)
(* handler leaves its HTTP response in `response`.  The concurrent         *)
(* specification runs the handlers of several clients statement by         *)
(* statement (`proc`).                                                      *)
(***************************************************************************)
EXTENDS Integers, Sequences, FiniteSets, Bags, TLC

VARIABLES db, request, response, proc

vars == <<db, request, response, proc>>

(***************************************************************************)
(* Bounds of the model.                                                    *)
(***************************************************************************)
MaxRecipes == 2
MaxIngredients == 2
MaxTags == 2
MaxClients == 2

(***************************************************************************)
(* Rows that exist before any request: users, tags and the ingredients     *)
(* loaded by load_csv.  (name, measurement_unit) is unique per ingredient. *)
(***************************************************************************)
UserIds == {1, 2}

\* request.user of a caller that is not authenticated.
Anonymous == 0

TagIds == {1, 2}

Ingredient ==
    (1 :> [name |-> "flour", measurement_unit |-> "g"])
    @@ (2 :> [name |-> "flour", measurement_unit |-> "kg"])
    @@ (3 :> [name |-> "sugar", measurement_unit |-> "g"])

\* An ingredient id that no Ingredient row has.
MissingIngredientIds == {4}

RecipeNames == {"soup", "cake"}

RecipeIds == 1..MaxRecipes

\* The collation of the ingredient names (ORDER BY ingredient__name).
NameRank(n) == IF n = "flour" THEN 1 ELSE 2

(***************************************************************************)
(* Requests and responses.                                                 *)
(***************************************************************************)
NoData == [ingredients |-> <<>>, tags |-> <<>>, name |-> ""]

NoRequest == [op |-> "none", user |-> 0, target |-> 0, data |-> NoData]

NoResponse == [op |-> "none", status |-> 0, error |-> "", id |-> 0, body |-> <<>>]

Req(op, user, target, data) ==
    [op |-> op, user |-> user, target |-> target, data |-> data]

Resp(op, status, error, id) ==
    [op |-> op, status |-> status, error |-> error, id |-> id, body |-> <<>>]

\* A client of the concurrent specifications: where its handler stands, the
\* request it is handling and the response to its last request.
Clients == 1..MaxClients

\* The open transaction of a client: the rows its DELETE statement found,
\* the rows it has deleted (and holds locked) and the rows it has inserted.
NoTxn == [snapshot |-> {}, deleted |-> {}, inserted |-> {}]

IdleProc == [pc |-> "idle", req |-> NoRequest, resp |-> NoResponse, txn |-> NoTxn]

SeqsUpTo(S, n) == UNION {[1..k -> S] : k \in 0..n}

Range(s) == {s[i] : i \in DOMAIN s}

(***************************************************************************)
(* The store.                                                              *)
(***************************************************************************)
EmptyDb ==
    [user |-> UserIds,
     recipe |-> <<>>,
     recipe_tags |-> {},
     recipeingredient |-> {},
     favorite |-> EmptyBag,
     shoppingcart |-> EmptyBag,
     follow |-> EmptyBag,
     recipe_id_seq |-> 1]

\* The outcome of a sequence of statements: the store they left and the
\* exception (if any) that ended them.
Done(d) == [db |-> d, exc |-> "", id |-> 0]

Raise(d, exc, id) == [db |-> d, exc |-> exc, id |-> id]

\* Mutant of Atomic: the block's writes stay when an exception leaves it.
AtomicNoRollback(before, outcome) == outcome

\* transaction.atomic(): the writes of the block are kept when it ends
\* normally and rolled back when an exception leaves it.
Atomic(before, outcome) ==
    IF outcome.exc = "" THEN outcome ELSE Raise(before, outcome.exc, outcome.id)

RecipeExists(d, r) == r \in DOMAIN d.recipe

UserExists(d, u) == u \in d.user

RecipeIngredientsOf(d, r) == {row \in d.recipeingredient : row.recipe = r}

TagsOf(d, r) == {t \in TagIds : <<r, t>> \in d.recipe_tags}

\* Recipe.objects.create(author=user, **validated_data)
RecipeCreate(d, user, data) ==
    LET pk == d.recipe_id_seq
    IN  [d EXCEPT !.recipe = (pk :> [author |-> user, name |-> data.name]) @@ @,
                  !.recipe_id_seq = pk + 1]

\* recipe.tags.set(tags_data)
TagsSet(d, r, tags) ==
    [d EXCEPT !.recipe_tags =
        {p \in @ : p[1] # r} \cup {<<r, t>> : t \in Range(tags)}]

\* Mutant of RecipeIngredientsDelete: the old rows are not deleted.
RecipeIngredientsKept(d, r) == d

\* instance.recipes_ingredients.all().delete()
RecipeIngredientsDelete(d, r) ==
    [d EXCEPT !.recipeingredient = {row \in @ : row.recipe # r}]

\* unique_recipe_ingredient
UniqueRecipeIngredient(d, rows) ==
    /\ \A i, j \in DOMAIN rows :
          (i # j) => (rows[i].recipe # rows[j].recipe
                      \/ rows[i].ingredient # rows[j].ingredient)
    /\ \A i \in DOMAIN rows : \A old \in d.recipeingredient :
          old.recipe # rows[i].recipe \/ old.ingredient # rows[i].ingredient

\* RecipeIngredient.objects.bulk_create(ingredients_to_create)
BulkCreate(d, rows) ==
    IF UniqueRecipeIngredient(d, rows)
    THEN Done([d EXCEPT !.recipeingredient = @ \cup Range(rows)])
    ELSE Raise(d, "IntegrityError", 0)

\* The rows of a bag of pairs whose first and second members are in the
\* given sets.
BagWithin(bag, firsts, seconds) ==
    [p \in {q \in DOMAIN bag : q[1] \in firsts /\ q[2] \in seconds} |-> bag[p]]

\* Mutant of RecipeDelete: only the Recipe row goes.
RecipeDeleteNoCascade(d, r) ==
    [d EXCEPT !.recipe = [x \in DOMAIN d.recipe \ {r} |-> d.recipe[x]]]

\* recipe.delete(): the Recipe row and, by on_delete=CASCADE, the rows of
\* RecipeIngredient, Favorite, ShoppingCart and the recipe's tag rows.
RecipeDelete(d, r) ==
    LET left == DOMAIN d.recipe \ {r}
    IN  [d EXCEPT !.recipe = [x \in left |-> d.recipe[x]],
                  !.recipe_tags = {p \in @ : p[1] # r},
                  !.recipeingredient = {row \in @ : row.recipe # r},
                  !.favorite = BagWithin(@, d.user, left),
                  !.shoppingcart = BagWithin(@, d.user, left)]

RECURSIVE RecipesDelete(_, _)
RecipesDelete(d, recipes) ==
    IF recipes = {} THEN d
    ELSE LET r == CHOOSE x \in recipes : TRUE
         IN  RecipesDelete(RecipeDelete(d, r), recipes \ {r})

\* user.delete(): the User row and, by on_delete=CASCADE, the user's recipes
\* (with all that hangs on them) and Favorite, ShoppingCart and Follow rows.
UserDelete(d, u) ==
    LET d1 == RecipesDelete(d, {r \in DOMAIN d.recipe : d.recipe[r].author = u})
        left == d.user \ {u}
    IN  [d1 EXCEPT !.user = left,
                   !.favorite = BagWithin(@, left, DOMAIN d1.recipe),
                   !.shoppingcart = BagWithin(@, left, DOMAIN d1.recipe),
                   !.follow = BagWithin(@, left, left)]

(***************************************************************************)
(* RecipeWriteSerializer.                                                  *)
(***************************************************************************)
\* Mutant of FirstMissing: only the first entry is looked up.
FirstMissingHeadOnly(ingredients_data, i) ==
    IF Len(ingredients_data) >= 1 /\ ingredients_data[1].id \notin DOMAIN Ingredient
    THEN 1 ELSE 0

\* The index of the first entry whose id has no Ingredient row (0: none):
\* get_ingredient_or_raise_400 raises there, inside the loop.
RECURSIVE FirstMissing(_, _)
FirstMissing(ingredients_data, i) ==
    IF i > Len(ingredients_data) THEN 0
    ELSE IF ingredients_data[i].id \notin DOMAIN Ingredient THEN i
    ELSE FirstMissing(ingredients_data, i + 1)

\* The RecipeIngredient instances that process_ingredients_data builds.
RowsOfNewEntries(instance, ingredients_data) ==
    {[recipe |-> instance,
      ingredient |-> ingredients_data[i].id,
      amount |-> ingredients_data[i].amount] : i \in DOMAIN ingredients_data}

ProcessIngredientsData(d, instance, ingredients_data) ==
    LET bad == FirstMissing(ingredients_data, 1)
        ingredients_to_create ==
            [i \in DOMAIN ingredients_data |->
                [recipe |-> instance,
                 ingredient |-> ingredients_data[i].id,
                 amount |-> ingredients_data[i].amount]]
    IN  IF bad # 0
        THEN Raise(d, "ingredient_does_not_exist", ingredients_data[bad].id)
        ELSE BulkCreate(d, ingredients_to_create)

\* Mutant of Validate: the ingredient ids are not checked for duplicates.
ValidateNoUniqueIngredients(attrs) ==
    IF Len(attrs.ingredients) = 0 THEN "ingredients_required"
    ELSE IF Len(attrs.tags) = 0 THEN "tags_required"
    ELSE IF Cardinality(Range(attrs.tags)) # Len(attrs.tags) THEN "tags_unique"
    ELSE ""

\* Mutant of Validate: the tags are not checked.
ValidateTagsUnchecked(attrs) ==
    IF Len(attrs.ingredients) = 0 THEN "ingredients_required"
    ELSE IF Cardinality({attrs.ingredients[i].id : i \in DOMAIN attrs.ingredients})
                # Len(attrs.ingredients)
         THEN "ingredients_unique"
    ELSE ""

\* validate(attrs): "" when the data pass, else the error raised.
Validate(attrs) ==
    LET ingredients == attrs.ingredients
        tags == attrs.tags
    IN  IF Len(ingredients) = 0 THEN "ingredients_required"
        ELSE IF Cardinality({ingredients[i].id : i \in DOMAIN ingredients})
                    # Len(ingredients)
             THEN "ingredients_unique"
        ELSE IF Len(tags) = 0 THEN "tags_required"
        ELSE IF Cardinality(Range(tags)) # Len(tags) THEN "tags_unique"
        ELSE ""

\* The bounds of an amount (recipes.constans, which names the lower bound 1;
\* the upper bound stands for a value a PositiveSmallIntegerField holds).
MIN_VALUE == 1

MAX_VALUE == 32000

\* Mutant of FieldErrors: the amounts are not checked.
FieldErrorsNone(attrs) == ""

\* The field validation that precedes validate: every amount is an
\* IntegerField(min_value=MIN_VALUE, max_value=MAX_VALUE).
FieldErrors(attrs) ==
    IF \E i \in DOMAIN attrs.ingredients :
          \/ attrs.ingredients[i].amount < MIN_VALUE
          \/ attrs.ingredients[i].amount > MAX_VALUE
    THEN "ingredients_amount"
    ELSE ""

\* serializer.is_valid: the fields, then validate.
IsValid(attrs) ==
    IF FieldErrors(attrs) # "" THEN FieldErrors(attrs) ELSE Validate(attrs)

\* The ValidationError that validate raises: the field it is keyed by and
\* its message (the messages are in Russian in the code).
ValidationErrorDetail(err) ==
    CASE err = "ingredients_required" ->
            [field |-> "ingredients", message |-> "Required field!"]
      [] err = "ingredients_unique" ->
            [field |-> "ingredients", message |-> "Ingredients must be unique!"]
      [] err = "tags_required" ->
            [field |-> "tags", message |-> "Required field!"]
      [] err = "tags_unique" ->
            [field |-> "tags", message |-> "Tags must be unique!"]
      [] OTHER -> [field |-> "", message |-> ""]

\* The body of create's atomic block.
CreateBlock(d, user, data) ==
    LET pk == d.recipe_id_seq
        d1 == RecipeCreate(d, user, data)
        d2 == TagsSet(d1, pk, data.tags)
        out == ProcessIngredientsData(d2, pk, data.ingredients)
    IN  IF out.exc = "" THEN [out EXCEPT !.id = pk] ELSE out

SerializerCreate(d, user, data) == Atomic(d, CreateBlock(d, user, data))

\* The body of update's atomic block.
UpdateBlock(d, instance, data) ==
    LET d1 == RecipeIngredientsDelete(d, instance)
        d2 == TagsSet(d1, instance, data.tags)
    IN  ProcessIngredientsData(d2, instance, data.ingredients)

\* super().update(instance, validated_data): the scalar fields, then save().
SuperUpdate(d, instance, data) ==
    [d EXCEPT !.recipe[instance].name = data.name]

SerializerUpdate(d, instance, data) ==
    LET out == Atomic(d, UpdateBlock(d, instance, data))
    IN  IF out.exc = "" THEN Done(SuperUpdate(out.db, instance, data)) ELSE out

(***************************************************************************)
(* A request arrives.                                                      *)
(***************************************************************************)
\* The caller is anonymous or a user that exists.  (A create request is taken
\* only while the model has recipe ids left.)
Receive(requests) ==
    /\ request = NoRequest
    /\ \E r \in requests :
          /\ r.user = Anonymous \/ UserExists(db, r.user)
          /\ (r.op = "create") => (db.recipe_id_seq <= MaxRecipes)
          /\ request' = r
    /\ response' = NoResponse
    /\ UNCHANGED <<db, proc>>

Reply(resp) ==
    /\ response' = resp
    /\ request' = NoRequest
    /\ UNCHANGED proc

(***************************************************************************)
(* RecipeViewSet: create, update.                                          *)
(***************************************************************************)
IsAuthor(d, user, r) == d.recipe[r].author = user

SAFE_METHODS == {"GET", "HEAD", "OPTIONS"}

\* IsAuthorOrReadOnly.has_permission
HasPermission(method, user) ==
    method \in SAFE_METHODS \/ user # Anonymous

\* Mutant of HasObjectPermission: any authenticated user may write.
HasObjectPermissionAnyUser(method, d, user, r) == TRUE

\* IsAuthorOrReadOnly.has_object_permission
HasObjectPermission(method, d, user, r) ==
    method \in SAFE_METHODS \/ IsAuthor(d, user, r)

CreateRecipe ==
    /\ request.op = "create"
    /\ LET err == IsValid(request.data)
           out == SerializerCreate(db, request.user, request.data)
       IN  IF err # ""
           THEN /\ db' = db
                /\ Reply(Resp("create", 400, err, 0))
           ELSE /\ db' = out.db
                /\ Reply(IF out.exc = ""
                         THEN Resp("create", 201, "", out.id)
                         ELSE IF out.exc = "IntegrityError"
                         THEN Resp("create", 500, out.exc, 0)
                         ELSE Resp("create", 400, out.exc, out.id))

UpdateRecipe ==
    /\ request.op = "update"
    /\ LET r == request.target
           err == IsValid(request.data)
           out == SerializerUpdate(db, r, request.data)
       IN  IF ~HasPermission("PUT", request.user)
           THEN /\ db' = db
                /\ Reply(Resp("update", 401, "not_authenticated", 0))
           ELSE IF ~RecipeExists(db, r)
           THEN /\ db' = db
                /\ Reply(Resp("update", 404, "not_found", 0))
           ELSE IF ~HasObjectPermission("PUT", db, request.user, r)
           THEN /\ db' = db
                /\ Reply(Resp("update", 403, "permission_denied", 0))
           ELSE IF err # ""
           THEN /\ db' = db
                /\ Reply(Resp("update", 400, err, 0))
           ELSE /\ db' = out.db
                /\ Reply(IF out.exc = ""
                         THEN Resp("update", 200, "", r)
                         ELSE IF out.exc = "IntegrityError"
                         THEN Resp("update", 500, out.exc, 0)
                         ELSE Resp("update", 400, out.exc, out.id))

\* ModelViewSet.destroy: the permission checks, then instance.delete().
DestroyRecipe ==
    /\ request.op = "destroy"
    /\ LET r == request.target
       IN  IF ~HasPermission("DELETE", request.user)
           THEN /\ db' = db
                /\ Reply(Resp("destroy", 401, "not_authenticated", 0))
           ELSE IF ~RecipeExists(db, r)
           THEN /\ db' = db
                /\ Reply(Resp("destroy", 404, "not_found", 0))
           ELSE IF ~HasObjectPermission("DELETE", db, request.user, r)
           THEN /\ db' = db
                /\ Reply(Resp("destroy", 403, "permission_denied", 0))
           ELSE /\ db' = RecipeDelete(db, r)
                /\ Reply(Resp("destroy", 204, "", r))

\* RecipeReadSerializer: the fields of the recipe that the model keeps.
RecipeRead(d, r) ==
    [id |-> r,
     author |-> d.recipe[r].author,
     name |-> d.recipe[r].name,
     tags |-> TagsOf(d, r),
     ingredients |-> {[id |-> row.ingredient, amount |-> row.amount] :
                        row \in RecipeIngredientsOf(d, r)}]

\* ModelViewSet.retrieve: a safe method, open to every caller.
RetrieveRecipe ==
    /\ request.op = "retrieve"
    /\ db' = db
    /\ LET r == request.target
       IN  IF ~HasPermission("GET", request.user)
           THEN Reply(Resp("retrieve", 401, "not_authenticated", 0))
           ELSE IF ~RecipeExists(db, r)
           THEN Reply(Resp("retrieve", 404, "not_found", 0))
           ELSE IF ~HasObjectPermission("GET", db, request.user, r)
           THEN Reply(Resp("retrieve", 403, "permission_denied", 0))
           ELSE Reply([Resp("retrieve", 200, "", r) EXCEPT !.body = <<RecipeRead(db, r)>>])

\* UserViewSet.destroy, which get_permissions opens to authenticated
\* callers: a user deletes their own account.
DestroyUser ==
    /\ request.op = "delete_user"
    /\ IF request.user = Anonymous
       THEN /\ db' = db
            /\ Reply(Resp("delete_user", 401, "not_authenticated", 0))
       ELSE IF request.target # request.user
       THEN /\ db' = db
            /\ Reply(Resp("delete_user", 403, "permission_denied", 0))
       ELSE /\ db' = UserDelete(db, request.user)
            /\ Reply(Resp("delete_user", 204, "", request.user))

(***************************************************************************)
(* Favorite, ShoppingCart and Follow rows.  The tables are bags of pairs,  *)
(* so that a second row for a pair would show.                             *)
(***************************************************************************)
Pair(a, b) == SetToBag({<<a, b>>})

\* user.favorites.filter(recipe=recipe).exists()
FavoriteExists(d, user, recipe) == BagIn(<<user, recipe>>, d.favorite)

\* user.shopping_cart.filter(recipe=recipe).exists()
ShoppingCartExists(d, user, recipe) == BagIn(<<user, recipe>>, d.shoppingcart)

\* user.follower.filter(author=author).exists()
FollowExists(d, user, author) == BagIn(<<user, author>>, d.follow)

\* Mutant of FavoriteCreate: the table has no unique constraint.
FavoriteCreateNoConstraint(d, user, recipe) ==
    Done([d EXCEPT !.favorite = @ (+) Pair(user, recipe)])

\* INSERT into Favorite, under unique_favorite and the foreign keys.
FavoriteCreate(d, user, recipe) ==
    IF \/ FavoriteExists(d, user, recipe)
       \/ ~RecipeExists(d, recipe)
       \/ ~UserExists(d, user)
    THEN Raise(d, "IntegrityError", 0)
    ELSE Done([d EXCEPT !.favorite = @ (+) Pair(user, recipe)])

\* INSERT into ShoppingCart, under unique_shoppingcart and the foreign key.
ShoppingCartCreate(d, user, recipe) ==
    IF \/ ShoppingCartExists(d, user, recipe)
       \/ ~RecipeExists(d, recipe)
       \/ ~UserExists(d, user)
    THEN Raise(d, "IntegrityError", 0)
    ELSE Done([d EXCEPT !.shoppingcart = @ (+) Pair(user, recipe)])

\* INSERT into Follow, under unique_follow, can_not_follow_yourself and the
\* foreign keys.
FollowCreate(d, user, author) ==
    IF \/ FollowExists(d, user, author)
       \/ user = author
       \/ ~UserExists(d, user)
       \/ ~UserExists(d, author)
    THEN Raise(d, "IntegrityError", 0)
    ELSE Done([d EXCEPT !.follow = @ (+) Pair(user, author)])

\* instance.delete() of the row get_object_or_404 returned.
FavoriteDelete(d, user, recipe) ==
    [d EXCEPT !.favorite = @ (-) Pair(user, recipe)]

ShoppingCartDelete(d, user, recipe) ==
    [d EXCEPT !.shoppingcart = @ (-) Pair(user, recipe)]

FollowDelete(d, user, author) ==
    [d EXCEPT !.follow = @ (-) Pair(user, author)]

\* Mutant of SubscriptionValidate: the self-follow check is missing.
SubscriptionValidateNothing(user, author) == ""

\* SubscriptionSerializer.validate
SubscriptionValidate(user, author) ==
    IF author = user THEN "self_follow" ELSE ""

\* Mutant of FavoriteCheck: the request-time duplicate check is missing.
FavoriteCheckNoExists(d, user, pk) ==
    IF ~RecipeExists(d, pk) THEN "recipe_not_found" ELSE ""

\* favorite, up to serializer.is_valid: "" when the request may be saved.
FavoriteCheck(d, user, pk) ==
    IF ~RecipeExists(d, pk) THEN "recipe_not_found"
    ELSE IF FavoriteExists(d, user, pk) THEN "duplicate"
    ELSE ""

\* shopping_cart, up to serializer.is_valid.
ShoppingCartCheck(d, user, pk) ==
    IF ~RecipeExists(d, pk) THEN "recipe_not_found"
    ELSE IF ShoppingCartExists(d, user, pk) THEN "duplicate"
    ELSE ""

\* subscribe, up to serializer.is_valid.
SubscribeCheck(d, user, id) ==
    IF ~UserExists(d, id) THEN "user_not_found"
    ELSE IF FollowExists(d, user, id) THEN "duplicate"
    ELSE SubscriptionValidate(user, id)

\* get_object_or_404 answers 404; a ValidationError answers 400.
StatusOf(err) ==
    IF err = "user_not_found" \/ err = "recipe_404" THEN 404 ELSE 400

\* The response to a request whose row is being inserted.
Saved(op, out) ==
    IF out.exc = "" THEN Resp(op, 201, "", 0) ELSE Resp(op, 500, out.exc, 0)

Favorite ==
    /\ request.op = "favorite"
    /\ LET err == FavoriteCheck(db, request.user, request.target)
           out == FavoriteCreate(db, request.user, request.target)
       IN  IF err # ""
           THEN db' = db /\ Reply(Resp("favorite", StatusOf(err), err, 0))
           ELSE db' = out.db /\ Reply(Saved("favorite", out))

ShoppingCart ==
    /\ request.op = "shopping_cart"
    /\ LET err == ShoppingCartCheck(db, request.user, request.target)
           out == ShoppingCartCreate(db, request.user, request.target)
       IN  IF err # ""
           THEN db' = db /\ Reply(Resp("shopping_cart", StatusOf(err), err, 0))
           ELSE db' = out.db /\ Reply(Saved("shopping_cart", out))

Subscribe ==
    /\ request.op = "subscribe"
    /\ LET err == SubscribeCheck(db, request.user, request.target)
           out == FollowCreate(db, request.user, request.target)
       IN  IF err # ""
           THEN db' = db /\ Reply(Resp("subscribe", StatusOf(err), err, 0))
           ELSE db' = out.db /\ Reply(Saved("subscribe", out))

DeleteFavorite ==
    /\ request.op = "delete_favorite"
    /\ LET user == request.user
           pk == request.target
       IN  IF ~RecipeExists(db, pk)
           THEN db' = db /\ Reply(Resp("delete_favorite", 404, "recipe_404", 0))
           ELSE IF ~FavoriteExists(db, user, pk)
           THEN db' = db /\ Reply(Resp("delete_favorite", 400, "not_found", 0))
           ELSE /\ db' = FavoriteDelete(db, user, pk)
                /\ Reply(Resp("delete_favorite", 204, "", 0))

DeleteShoppingCart ==
    /\ request.op = "delete_shopping_cart"
    /\ LET user == request.user
           pk == request.target
       IN  IF ~RecipeExists(db, pk)
           THEN db' = db /\ Reply(Resp("delete_shopping_cart", 404, "recipe_404", 0))
           ELSE IF ~ShoppingCartExists(db, user, pk)
           THEN db' = db /\ Reply(Resp("delete_shopping_cart", 400, "not_found", 0))
           ELSE /\ db' = ShoppingCartDelete(db, user, pk)
                /\ Reply(Resp("delete_shopping_cart", 204, "", 0))

DeleteSubscribe ==
    /\ request.op = "delete_subscribe"
    /\ LET user == request.user
           id == request.target
       IN  IF ~UserExists(db, id)
           THEN db' = db /\ Reply(Resp("delete_subscribe", 404, "user_not_found", 0))
           ELSE IF ~FollowExists(db, user, id)
           THEN db' = db /\ Reply(Resp("delete_subscribe", 400, "not_found", 0))
           ELSE /\ db' = FollowDelete(db, user, id)
                /\ Reply(Resp("delete_subscribe", 204, "", 0))

(***************************************************************************)
(* RecipeViewSet.download_shopping_cart.                                   *)
(***************************************************************************)
\* RecipeIngredient.objects.filter(recipe__shopping_cart__user=request.user):
\* the join of the RecipeIngredient rows with the user's ShoppingCart rows.
CartRows(d, user) ==
    {j \in [row : d.recipeingredient, cart : BagToSet(d.shoppingcart)] :
        j.cart[2] = j.row.recipe /\ j.cart[1] = user}

\* Mutant of GroupKey: the rows are grouped by the ingredient name alone.
GroupKeyNameOnly(ri) ==
    [name |-> Ingredient[ri.ingredient].name, measurement_unit |-> "g"]

\* values('ingredient__name', 'ingredient__measurement_unit')
GroupKey(ri) ==
    [name |-> Ingredient[ri.ingredient].name,
     measurement_unit |-> Ingredient[ri.ingredient].measurement_unit]

\* Sum('amount') over joined rows; a cart row held n times joins n times.
RECURSIVE SumAmount(_, _)
SumAmount(d, joined) ==
    IF joined = {} THEN 0
    ELSE LET j == CHOOSE x \in joined : TRUE
         IN  j.row.amount * CopiesIn(j.cart, d.shoppingcart)
             + SumAmount(d, joined \ {j})

\* The grouped query: one line per group key.
ShoppingListLines(d, user) ==
    LET joined == CartRows(d, user)
        keys == {GroupKey(j.row) : j \in joined}
    IN  {[name |-> k.name,
          measurement_unit |-> k.measurement_unit,
          amount |-> SumAmount(d, {j \in joined : GroupKey(j.row) = k})] :
         k \in keys}

\* order_by('ingredient__name'): every order of the lines that ascends by
\* name (the query does not order lines of one name).
OrderedByName(lines) ==
    {s \in [1..Cardinality(lines) -> lines] :
        /\ Range(s) = lines
        /\ \A i, j \in DOMAIN s :
              (i < j) => (NameRank(s[i].name) <= NameRank(s[j].name))}

\* The response body is the header line followed by the lines of `body`.
DownloadShoppingCart ==
    /\ request.op = "download_shopping_cart"
    /\ \E lines \in OrderedByName(ShoppingListLines(db, request.user)) :
          /\ db' = db
          /\ Reply([Resp("download_shopping_cart", 200, "", 0) EXCEPT !.body = lines])

(***************************************************************************)
(* CustomUserViewSet.subscriptions.  The query parameters of the request   *)
(* are texts (sequences of characters), as request.GET holds them.         *)
(***************************************************************************)
\* PageLimitPagination.page_size
PAGE_SIZE == 6

DigitValue ==
    ("0" :> 0) @@ ("1" :> 1) @@ ("2" :> 2) @@ ("3" :> 3) @@ ("4" :> 4)
    @@ ("5" :> 5) @@ ("6" :> 6) @@ ("7" :> 7) @@ ("8" :> 8) @@ ("9" :> 9)

RECURSIVE DigitsValue(_, _, _)
DigitsValue(text, i, acc) ==
    IF i > Len(text) THEN acc
    ELSE DigitsValue(text, i + 1, 10 * acc + DigitValue[text[i]])

\* int(text): an optional sign and at least one digit, else ValueError.
ParseInt(text) ==
    LET negative == Len(text) > 0 /\ text[1] = "-"
        digits == IF negative THEN Tail(text) ELSE text
    IN  IF Len(digits) = 0 \/ \E i \in DOMAIN digits : digits[i] \notin DOMAIN DigitValue
        THEN [ok |-> FALSE, value |-> 0]
        ELSE [ok |-> TRUE,
              value |-> IF negative THEN 0 - DigitsValue(digits, 1, 0)
                        ELSE DigitsValue(digits, 1, 0)]

\* The elements of a set of numbers in ascending order.
RECURSIVE Ascending(_)
Ascending(S) ==
    IF S = {} THEN <<>>
    ELSE LET m == CHOOSE x \in S : \A y \in S : x <= y
         IN  <<m>> \o Ascending(S \ {m})

RECURSIVE Descending(_)
Descending(S) ==
    IF S = {} THEN <<>>
    ELSE LET m == CHOOSE x \in S : \A y \in S : x >= y
         IN  <<m>> \o Descending(S \ {m})

\* queryset[:n]: the first n rows; a negative n is not supported and raises.
Slice(rows, n) ==
    IF n < 0 THEN [exc |-> "ValueError", rows |-> <<>>]
    ELSE [exc |-> "", rows |-> SubSeq(rows, 1, IF n < Len(rows) THEN n ELSE Len(rows))]

\* obj.recipes.all(): the author's recipes, newest first (Meta.ordering is
\* -pub_date, and a later recipe has the larger pk).
RecipesOfAuthor(d, obj) == Descending({r \in DOMAIN d.recipe : d.recipe[r].author = obj})

\* get_recipes: a non-empty recipes_limit text is converted by int() and cuts
\* the list; neither the conversion nor the slice is guarded.
GetRecipes(d, obj, GET) ==
    LET present == "recipes_limit" \in DOMAIN GET
        limit == IF present THEN GET["recipes_limit"] ELSE <<>>
        recipes == RecipesOfAuthor(d, obj)
        n == ParseInt(limit)
    IN  IF ~present \/ Len(limit) = 0 THEN [exc |-> "", rows |-> recipes]
        ELSE IF ~n.ok THEN [exc |-> "ValueError", rows |-> <<>>]
        ELSE Slice(recipes, n.value)

\* get_recipes_count
GetRecipesCount(d, obj) == Len(RecipesOfAuthor(d, obj))

\* PageLimitPagination: the page size is the `limit` parameter when that is
\* a positive integer, and page_size otherwise.
GetPageSize(GET) ==
    LET n == IF "limit" \in DOMAIN GET THEN ParseInt(GET["limit"])
             ELSE [ok |-> FALSE, value |-> 0]
    IN  IF n.ok /\ n.value > 0 THEN n.value ELSE PAGE_SIZE

\* paginate_queryset: the first page (the requests carry no page number).
PaginateQueryset(queryset, GET) ==
    LET size == GetPageSize(GET)
    IN  SubSeq(queryset, 1, IF size < Len(queryset) THEN size ELSE Len(queryset))

\* User.objects.filter(following__user=request.user).order_by('id')
Following(d, user) == Ascending({a \in d.user : FollowExists(d, user, a)})

Subscriptions ==
    /\ request.op = "subscriptions"
    /\ db' = db
    /\ LET GET == request.data
           pages == PaginateQueryset(Following(db, request.user), GET)
           data == [i \in DOMAIN pages |->
                      [id |-> pages[i],
                       recipes |-> GetRecipes(db, pages[i], GET).rows,
                       recipes_count |-> GetRecipesCount(db, pages[i])]]
       IN  IF request.user = Anonymous
           THEN Reply(Resp("subscriptions", 401, "not_authenticated", 0))
           ELSE IF \E i \in DOMAIN pages : GetRecipes(db, pages[i], GET).exc # ""
           THEN Reply(Resp("subscriptions", 500, "ValueError", 0))
           ELSE Reply([Resp("subscriptions", 200, "", 0) EXCEPT !.body = data])

(***************************************************************************)
(* The handlers statement by statement, for clients that run concurrently. *)
(* favorite, shopping_cart and subscribe first run their request-time      *)
(* checks and then insert the row; update first runs its atomic block and  *)
(* then, outside it, super().update.                                       *)
(***************************************************************************)
Finish(c, resp) ==
    /\ proc' = [proc EXCEPT ![c] = [pc |-> "idle", req |-> NoRequest, resp |-> resp,
                                    txn |-> NoTxn]]
    /\ UNCHANGED <<request, response>>

Continue(c, pc, q) ==
    /\ proc' = [proc EXCEPT ![c] = [pc |-> pc, req |-> q, resp |-> NoResponse,
                                    txn |-> NoTxn]]
    /\ UNCHANGED <<request, response>>

\* The checks of an add request q, with outcome err.
Checked(c, q, err) ==
    /\ proc[c].pc = "idle"
    /\ db' = db
    /\ IF err # ""
       THEN Finish(c, Resp(q.op, StatusOf(err), err, 0))
       ELSE Continue(c, "save", q)

FavoriteChecked(c, requests) ==
    \E q \in requests :
        /\ q.op = "favorite"
        /\ Checked(c, q, FavoriteCheck(db, q.user, q.target))

ShoppingCartChecked(c, requests) ==
    \E q \in requests :
        /\ q.op = "shopping_cart"
        /\ Checked(c, q, ShoppingCartCheck(db, q.user, q.target))

SubscribeChecked(c, requests) ==
    \E q \in requests :
        /\ q.op = "subscribe"
        /\ Checked(c, q, SubscribeCheck(db, q.user, q.target))

\* serializer.save(): the IntegrityError of a rejected insert is not caught.
FavoriteSaved(c) ==
    /\ proc[c].pc = "save"
    /\ proc[c].req.op = "favorite"
    /\ LET out == FavoriteCreate(db, proc[c].req.user, proc[c].req.target)
       IN  db' = out.db /\ Finish(c, Saved("favorite", out))

ShoppingCartSaved(c) ==
    /\ proc[c].pc = "save"
    /\ proc[c].req.op = "shopping_cart"
    /\ LET out == ShoppingCartCreate(db, proc[c].req.user, proc[c].req.target)
       IN  db' = out.db /\ Finish(c, Saved("shopping_cart", out))

\* Follow.objects.create(user=user, author=author)
SubscribeSaved(c) ==
    /\ proc[c].pc = "save"
    /\ proc[c].req.op = "subscribe"
    /\ LET out == FollowCreate(db, proc[c].req.user, proc[c].req.target)
       IN  db' = out.db /\ Finish(c, Saved("subscribe", out))

\* A remove request q: the lookup of its target and the exists() check.
RemoveChecked(c, q, targetFound, rowExists) ==
    /\ proc[c].pc = "idle"
    /\ db' = db
    /\ IF ~targetFound
       THEN Finish(c, Resp(q.op, 404,
                IF q.op = "delete_subscribe" THEN "user_not_found" ELSE "recipe_404", 0))
       ELSE IF ~rowExists
       THEN Finish(c, Resp(q.op, 400, "not_found", 0))
       ELSE Continue(c, "get", q)

\* get_object_or_404 of the row: the instance is loaded, or the answer is 404.
RemoveGot(c, op, rowExists) ==
    /\ proc[c].pc = "get"
    /\ proc[c].req.op = op
    /\ db' = db
    /\ IF rowExists
       THEN Continue(c, "delete", proc[c].req)
       ELSE Finish(c, Resp(op, 404, "row_404", 0))

\* instance.delete(): DELETE of the loaded row by its primary key, which
\* deletes no row and raises nothing when the row is gone already; then 204.
RemoveDeleted(c, op, after) ==
    /\ proc[c].pc = "delete"
    /\ proc[c].req.op = op
    /\ db' = after
    /\ Finish(c, Resp(op, 204, "", 0))

DeleteFavoriteChecked(c, requests) ==
    \E q \in requests :
        /\ q.op = "delete_favorite"
        /\ RemoveChecked(c, q, RecipeExists(db, q.target),
                         FavoriteExists(db, q.user, q.target))

DeleteFavoriteGot(c) ==
    RemoveGot(c, "delete_favorite",
              FavoriteExists(db, proc[c].req.user, proc[c].req.target))

DeleteFavoriteDeleted(c) ==
    RemoveDeleted(c, "delete_favorite",
                  FavoriteDelete(db, proc[c].req.user, proc[c].req.target))

DeleteShoppingCartChecked(c, requests) ==
    \E q \in requests :
        /\ q.op = "delete_shopping_cart"
        /\ RemoveChecked(c, q, RecipeExists(db, q.target),
                         ShoppingCartExists(db, q.user, q.target))

DeleteShoppingCartGot(c) ==
    RemoveGot(c, "delete_shopping_cart",
              ShoppingCartExists(db, proc[c].req.user, proc[c].req.target))

DeleteShoppingCartDeleted(c) ==
    RemoveDeleted(c, "delete_shopping_cart",
                  ShoppingCartDelete(db, proc[c].req.user, proc[c].req.target))

DeleteSubscribeChecked(c, requests) ==
    \E q \in requests :
        /\ q.op = "delete_subscribe"
        /\ RemoveChecked(c, q, UserExists(db, q.target),
                         FollowExists(db, q.user, q.target))

DeleteSubscribeGot(c) ==
    RemoveGot(c, "delete_subscribe",
              FollowExists(db, proc[c].req.user, proc[c].req.target))

DeleteSubscribeDeleted(c) ==
    RemoveDeleted(c, "delete_subscribe",
                  FollowDelete(db, proc[c].req.user, proc[c].req.target))

\* update, up to the end of its atomic block (which commits there).
UpdateBlockCommitted(c, requests) ==
    \E q \in requests :
        /\ q.op = "update"
        /\ proc[c].pc = "idle"
        /\ LET r == q.target
               err == IsValid(q.data)
               out == Atomic(db, UpdateBlock(db, r, q.data))
           IN  IF ~HasPermission("PUT", q.user)
               THEN db' = db /\ Finish(c, Resp("update", 401, "not_authenticated", 0))
               ELSE IF ~RecipeExists(db, r)
               THEN db' = db /\ Finish(c, Resp("update", 404, "not_found", 0))
               ELSE IF ~HasObjectPermission("PUT", db, q.user, r)
               THEN db' = db /\ Finish(c, Resp("update", 403, "permission_denied", 0))
               ELSE IF err # ""
               THEN db' = db /\ Finish(c, Resp("update", 400, err, 0))
               ELSE IF out.exc # ""
               THEN db' = out.db /\ Finish(c, Resp("update", 400, out.exc, out.id))
               ELSE db' = out.db /\ Continue(c, "super_update", q)

\* return super().update(instance, validated_data)
UpdateSaved(c) ==
    /\ proc[c].pc = "super_update"
    /\ db' = SuperUpdate(db, proc[c].req.target, proc[c].req.data)
    /\ Finish(c, Resp("update", 200, "", proc[c].req.target))

(***************************************************************************)
(* update statement by statement, its transaction at the READ COMMITTED    *)
(* level that the database gives transaction.atomic by default: a          *)
(* statement sees the rows committed when it starts, a DELETE waits for    *)
(* the transaction that holds a row it found and then skips the row if     *)
(* that transaction deleted it, and rows committed meanwhile are not seen  *)
(* by the waiting statement.  (tags.set is applied with the commit.)       *)
(***************************************************************************)
TxnStep(c, pc, txn) ==
    /\ proc' = [proc EXCEPT ![c].pc = pc, ![c].txn = txn]
    /\ UNCHANGED <<request, response>>

SameKey(x, y) == x.recipe = y.recipe /\ x.ingredient = y.ingredient

\* update up to instance.recipes_ingredients.all().delete(): the statement
\* has found the rows it is to delete.
UpdateBegun(c, requests) ==
    \E q \in requests :
        /\ q.op = "update"
        /\ proc[c].pc = "idle"
        /\ db' = db
        /\ LET r == q.target
               err == IsValid(q.data)
           IN  IF ~HasPermission("PUT", q.user)
               THEN Finish(c, Resp("update", 401, "not_authenticated", 0))
               ELSE IF ~RecipeExists(db, r)
               THEN Finish(c, Resp("update", 404, "not_found", 0))
               ELSE IF ~HasObjectPermission("PUT", db, q.user, r)
               THEN Finish(c, Resp("update", 403, "permission_denied", 0))
               ELSE IF err # ""
               THEN Finish(c, Resp("update", 400, err, 0))
               ELSE /\ proc' = [proc EXCEPT ![c] =
                          [pc |-> "delete", req |-> q, resp |-> NoResponse,
                           txn |-> [NoTxn EXCEPT !.snapshot = RecipeIngredientsOf(db, r)]]]
                    /\ UNCHANGED <<request, response>>

\* The DELETE completes once no other transaction holds a row it found.
UpdateRowsDeleted(c) ==
    /\ proc[c].pc = "delete"
    /\ \A o \in Clients \ {c} : proc[o].txn.deleted \cap proc[c].txn.snapshot = {}
    /\ db' = db
    /\ TxnStep(c, "insert", [proc[c].txn EXCEPT !.deleted = proc[c].txn.snapshot])

\* process_ingredients_data inside the transaction: a missing ingredient
\* rolls the transaction back (400); the INSERT waits for a transaction that
\* holds its key and fails on a committed row of its key, which nothing
\* catches (500).
UpdateRowsInserted(c) ==
    /\ proc[c].pc = "insert"
    /\ db' = db
    /\ LET q == proc[c].req
           bad == FirstMissing(q.data.ingredients, 1)
           rows == RowsOfNewEntries(q.target, q.data.ingredients)
           visible == db.recipeingredient \ proc[c].txn.deleted
       IN  IF bad # 0
           THEN Finish(c, Resp("update", 400, "ingredient_does_not_exist",
                               q.data.ingredients[bad].id))
           ELSE /\ \A o \in Clients \ {c} :
                      \A x \in rows : \A y \in proc[o].txn.inserted \cup proc[o].txn.deleted :
                          ~SameKey(x, y)
                /\ IF \E x \in rows : \E y \in visible : SameKey(x, y)
                   THEN Finish(c, Resp("update", 500, "IntegrityError", 0))
                   ELSE TxnStep(c, "commit", [proc[c].txn EXCEPT !.inserted = rows])

\* The atomic block ends: the transaction's deletes, inserts and tags are
\* committed, and the rows it deleted are gone for the statements that wait.
UpdateCommitted(c) ==
    /\ proc[c].pc = "commit"
    /\ LET q == proc[c].req
           txn == proc[c].txn
           d1 == [db EXCEPT !.recipeingredient = (@ \ txn.deleted) \cup txn.inserted]
       IN  /\ db' = TagsSet(d1, q.target, q.data.tags)
           /\ proc' = [o \in Clients |->
                  IF o = c
                  THEN [proc[c] EXCEPT !.pc = "super_update", !.txn = NoTxn]
                  ELSE [proc[o] EXCEPT !.txn.snapshot = @ \ txn.deleted]]
    /\ UNCHANGED <<request, response>>

(***************************************************************************)
(* The mutation service on its own: recipes are created and updated.       *)
(***************************************************************************)
\* The requests of one author: ingredient lists of every shape (empty,
\* duplicate ids, a missing id at any position) with one tag list, and tag
\* lists of every shape with one ingredient list and both names; and the
\* requests in which both lists are at fault; and amounts at and beyond the
\* ends of their range.
MutationEntries ==
    {[id |-> 1, amount |-> 1], [id |-> 1, amount |-> 2],
     [id |-> 3, amount |-> 1], [id |-> 4, amount |-> 1]}

MutationData ==
    [ingredients : SeqsUpTo(MutationEntries, MaxIngredients),
     tags : {<<1>>},
     name : {"soup"}]
    \cup [ingredients : {<<[id |-> 3, amount |-> 1]>>},
          tags : SeqsUpTo(TagIds, MaxTags),
          name : RecipeNames]
    \cup [ingredients : {<<>>, <<[id |-> 1, amount |-> 1], [id |-> 1, amount |-> 2]>>},
          tags : {<<>>, <<1, 1>>},
          name : {"soup"}]
    \cup [ingredients : {<<[id |-> 1, amount |-> MIN_VALUE - 1]>>,
                         <<[id |-> 3, amount |-> MAX_VALUE]>>,
                         <<[id |-> 3, amount |-> MAX_VALUE + 1]>>},
          tags : {<<1>>},
          name : {"soup"}]

MutationRequests ==
    {Req("create", 1, 0, data) : data \in MutationData}
    \cup {Req("update", 1, r, data) : r \in RecipeIds, data \in MutationData}

Init ==
    /\ db = EmptyDb
    /\ request = NoRequest
    /\ response = NoResponse
    /\ proc = [c \in Clients |-> IdleProc]

NextMutation ==
    \/ Receive(MutationRequests)
    \/ CreateRecipe
    \/ UpdateRecipe

SpecMutation == Init /\ [][NextMutation]_vars

(***************************************************************************)
(* The relationship endpoints, one request at a time, on a store that      *)
(* holds MaxRecipes recipes (each created by RecipeWriteSerializer.create). *)
(***************************************************************************)
SeedData ==
    [ingredients |-> <<[id |-> 1, amount |-> 1]>>, tags |-> <<1>>, name |-> "soup"]

RECURSIVE SeedDb(_)
SeedDb(n) ==
    IF n = 0 THEN EmptyDb
    ELSE SerializerCreate(SeedDb(n - 1), IF n % 2 = 1 THEN 1 ELSE 2, SeedData).db

\* A recipe id and a user id that no row has.
MissingRecipeIds == {MaxRecipes + 1}

MissingUserIds == {3}

GuardRequests ==
    {Req(op, u, r, NoData) :
        op \in {"favorite", "delete_favorite", "shopping_cart", "delete_shopping_cart"},
        u \in UserIds, r \in RecipeIds \cup MissingRecipeIds}
    \cup {Req(op, u, a, NoData) :
        op \in {"subscribe", "delete_subscribe"},
        u \in UserIds, a \in UserIds \cup MissingUserIds}

InitGuard ==
    /\ db = SeedDb(MaxRecipes)
    /\ request = NoRequest
    /\ response = NoResponse
    /\ proc = [c \in Clients |-> IdleProc]

NextGuard ==
    \/ Receive(GuardRequests)
    \/ Favorite
    \/ DeleteFavorite
    \/ ShoppingCart
    \/ DeleteShoppingCart
    \/ Subscribe
    \/ DeleteSubscribe

SpecGuard == InitGuard /\ [][NextGuard]_vars

(***************************************************************************)
(* The shopping list: one author creates recipes, both users fill and      *)
(* empty their carts and download their lists.                             *)
(***************************************************************************)
CartEntries ==
    {[id |-> 1, amount |-> 1], [id |-> 1, amount |-> 2],
     [id |-> 2, amount |-> 1], [id |-> 3, amount |-> 2]}

CartData ==
    [ingredients : {s \in SeqsUpTo(CartEntries, MaxIngredients) :
                      /\ Len(s) > 0
                      /\ \A i, j \in DOMAIN s : (i # j) => (s[i].id # s[j].id)},
     tags : {<<1>>},
     name : {"soup"}]

CartRequests ==
    {Req("create", 1, 0, data) : data \in CartData}
    \cup {Req(op, u, r, NoData) :
            op \in {"shopping_cart", "delete_shopping_cart"},
            u \in UserIds, r \in RecipeIds}
    \cup {Req("download_shopping_cart", u, 0, NoData) : u \in UserIds}

NextCart ==
    \/ Receive(CartRequests)
    \/ CreateRecipe
    \/ ShoppingCart
    \/ DeleteShoppingCart
    \/ DownloadShoppingCart

SpecCart == Init /\ [][NextCart]_vars

(***************************************************************************)
(* Concurrent add requests of both users, all for recipe 1 (favorite,      *)
(* shopping cart) or for a user (follow).                                  *)
(***************************************************************************)
ConcAddRequests ==
    {Req(op, u, 1, NoData) : op \in {"favorite", "shopping_cart"}, u \in UserIds}
    \cup {Req("subscribe", u, a, NoData) : u \in UserIds, a \in UserIds}

NextConcAdd ==
    \E c \in Clients :
        \/ FavoriteChecked(c, ConcAddRequests)
        \/ FavoriteSaved(c)
        \/ ShoppingCartChecked(c, ConcAddRequests)
        \/ ShoppingCartSaved(c)
        \/ SubscribeChecked(c, ConcAddRequests)
        \/ SubscribeSaved(c)

SpecConcAdd == InitGuard /\ [][NextConcAdd]_vars

(***************************************************************************)
(* Concurrent updates of the seeded recipes.                               *)
(***************************************************************************)
ConcUpdateData ==
    {SeedData,
     [ingredients |-> <<[id |-> 3, amount |-> 2]>>, tags |-> <<2>>, name |-> "cake"],
     [ingredients |-> <<[id |-> 3, amount |-> 2], [id |-> 4, amount |-> 1]>>,
      tags |-> <<2>>, name |-> "cake"]}

ConcUpdateRequests ==
    {Req("update", u, r, data) : u \in UserIds, r \in RecipeIds, data \in ConcUpdateData}

NextConcUpdate ==
    \E c \in Clients :
        \/ UpdateBlockCommitted(c, ConcUpdateRequests)
        \/ UpdateSaved(c)

SpecConcUpdate == InitGuard /\ [][NextConcUpdate]_vars

(***************************************************************************)
(* Concurrent remove requests on a store in which both users have recipe 1 *)
(* in their favorites and carts and follow each other.  No row is inserted *)
(* here, so the row a handler loaded is the only row its pair ever has.     *)
(***************************************************************************)
RECURSIVE SeedRows(_, _)
SeedRows(d, users) ==
    IF users = {} THEN d
    ELSE LET u == CHOOSE x \in users : TRUE
             d1 == FavoriteCreate(d, u, 1).db
             d2 == ShoppingCartCreate(d1, u, 1).db
             d3 == IF u = 1 THEN FollowCreate(d2, 1, 2).db
                   ELSE FollowCreate(d2, u, 1).db
         IN  SeedRows(d3, users \ {u})

ConcRemoveRequests ==
    {Req(op, u, 1, NoData) :
        op \in {"delete_favorite", "delete_shopping_cart"}, u \in UserIds}
    \cup {Req("delete_subscribe", u, a, NoData) : u \in UserIds, a \in UserIds}

InitConcRemove ==
    /\ db = SeedRows(SeedDb(MaxRecipes), UserIds)
    /\ request = NoRequest
    /\ response = NoResponse
    /\ proc = [c \in Clients |-> IdleProc]

NextConcRemove ==
    \E c \in Clients :
        \/ DeleteFavoriteChecked(c, ConcRemoveRequests)
        \/ DeleteFavoriteGot(c)
        \/ DeleteFavoriteDeleted(c)
        \/ DeleteShoppingCartChecked(c, ConcRemoveRequests)
        \/ DeleteShoppingCartGot(c)
        \/ DeleteShoppingCartDeleted(c)
        \/ DeleteSubscribeChecked(c, ConcRemoveRequests)
        \/ DeleteSubscribeGot(c)
        \/ DeleteSubscribeDeleted(c)

SpecConcRemove == InitConcRemove /\ [][NextConcRemove]_vars

(***************************************************************************)
(* The follow listing: user 1 follows any of the other users, of whom user *)
(* 2 writes recipes, and lists the followed users under every combination  *)
(* of the `limit` and `recipes_limit` parameters.  There are more users    *)
(* than a page of the default size holds.                                  *)
(***************************************************************************)
ListingUserIds == 1..(PAGE_SIZE + 2)

LimitTexts == {<<"0">>, <<"-", "1">>, <<"2">>, <<"7">>, <<"x">>}

RecipesLimitTexts == {<<>>, <<"0">>, <<"-", "1">>, <<"1">>, <<"x">>}

QueryParams ==
    {<<>>}
    \cup {("limit" :> l) : l \in LimitTexts}
    \cup {("recipes_limit" :> r) : r \in RecipesLimitTexts}
    \cup {("limit" :> l) @@ ("recipes_limit" :> r) :
            l \in LimitTexts, r \in RecipesLimitTexts}

ListingRequests ==
    {Req("create", 2, 0, SeedData)}
    \cup {Req("subscribe", 1, a, NoData) : a \in ListingUserIds}
    \cup {Req("subscriptions", u, 0, GET) : u \in {Anonymous, 1}, GET \in QueryParams}

InitListing ==
    /\ db = [EmptyDb EXCEPT !.user = ListingUserIds]
    /\ request = NoRequest
    /\ response = NoResponse
    /\ proc = [c \in Clients |-> IdleProc]

NextListing ==
    \/ Receive(ListingRequests)
    \/ CreateRecipe
    \/ Subscribe
    \/ Subscriptions

SpecListing == InitListing /\ [][NextListing]_vars

(***************************************************************************)
(* The life of the join rows: rows are added and removed, recipes are      *)
(* deleted by their authors and users delete their accounts.               *)
(***************************************************************************)
LifecycleRequests ==
    {Req(op, u, r, NoData) :
        op \in {"favorite", "delete_favorite"}, u \in UserIds, r \in RecipeIds}
    \cup {Req(op, 1, r, NoData) :
        op \in {"shopping_cart", "delete_shopping_cart"}, r \in RecipeIds}
    \cup {Req(op, u, a, NoData) :
        op \in {"subscribe", "delete_subscribe"}, u \in UserIds, a \in UserIds}
    \cup {Req("destroy", u, r, NoData) : u \in UserIds, r \in RecipeIds}
    \cup {Req("delete_user", u, a, NoData) : u \in UserIds, a \in UserIds}

NextLifecycle ==
    \/ Receive(LifecycleRequests)
    \/ Favorite
    \/ DeleteFavorite
    \/ ShoppingCart
    \/ DeleteShoppingCart
    \/ Subscribe
    \/ DeleteSubscribe
    \/ DestroyRecipe
    \/ DestroyUser

SpecLifecycle == InitGuard /\ [][NextLifecycle]_vars

(***************************************************************************)
(* Concurrent updates of the seeded recipes, statement by statement.       *)
(***************************************************************************)
NextConcWrite ==
    \E c \in Clients :
        \/ UpdateBegun(c, ConcUpdateRequests)
        \/ UpdateRowsDeleted(c)
        \/ UpdateRowsInserted(c)
        \/ UpdateCommitted(c)
        \/ UpdateSaved(c)

SpecConcWrite == InitGuard /\ [][NextConcWrite]_vars

(***************************************************************************)
(* The recipe endpoints under every caller: anonymous, author and other    *)
(* user read, update and delete the seeded recipes.                        *)
(***************************************************************************)
Callers == UserIds \cup {Anonymous}

PermissionRequests ==
    {Req("update", u, r, data) :
        u \in Callers, r \in RecipeIds \cup MissingRecipeIds, data \in ConcUpdateData}
    \cup {Req(op, u, r, NoData) :
        op \in {"destroy", "retrieve"}, u \in Callers, r \in RecipeIds \cup MissingRecipeIds}

NextPermission ==
    \/ Receive(PermissionRequests)
    \/ UpdateRecipe
    \/ DestroyRecipe
    \/ RetrieveRecipe

SpecPermission == InitGuard /\ [][NextPermission]_vars

(***************************************************************************)
(* Properties of the mutation service.                                     *)
(***************************************************************************)
HasDuplicateIds(entries) ==
    \E i, j \in DOMAIN entries : i # j /\ entries[i].id = entries[j].id

MissingIndexes(entries) ==
    {i \in DOMAIN entries : entries[i].id \notin DOMAIN Ingredient}

HasDuplicates(s) == \E i, j \in DOMAIN s : i # j /\ s[i] = s[j]

\* Non-empty, duplicate-free ingredient and tag lists.
WellFormed(data) ==
    /\ Len(data.ingredients) > 0
    /\ Len(data.tags) > 0
    /\ ~HasDuplicateIds(data.ingredients)
    /\ ~HasDuplicates(data.tags)

RowsOfEntries(r, entries) ==
    {[recipe |-> r, ingredient |-> e.id, amount |-> e.amount] : e \in Range(entries)}

SameRecipeTables ==
    /\ db'.recipe = db.recipe
    /\ db'.recipe_tags = db.recipe_tags
    /\ db'.recipeingredient = db.recipeingredient

\* C2: a create request whose ingredient entries repeat an ingredient id is
\* rejected by validation (400, 'ingredients' must be unique) and the Recipe,
\* RecipeIngredient and recipe-tag tables are the same after it as before.
C2_DuplicateIngredientsRejected ==
    [][(request.op = "create" /\ HasDuplicateIds(request.data.ingredients))
        => (/\ response'.status = 400
            /\ response'.error = "ingredients_unique"
            /\ SameRecipeTables)]_vars

C2_Witness ==
    /\ response.op = "create"
    /\ response.error = "ingredients_unique"
    /\ DOMAIN db.recipe # {}

C4_UpdateReplacesIngredients ==
    [][(request.op = "update" /\ response'.status = 200)
        => LET r == request.target
               L == request.data.ingredients
           IN  /\ RecipeIngredientsOf(db', r) = RowsOfEntries(r, L)
               /\ Cardinality(RecipeIngredientsOf(db', r)) = Len(L)
               /\ \A o \in DOMAIN db.recipe \ {r} :
                     RecipeIngredientsOf(db', o) = RecipeIngredientsOf(db, o)]_vars

C4_Witness ==
    /\ response.op = "update"
    /\ response.status = 200
    /\ \E o \in DOMAIN db.recipe \ {response.id} :
          /\ RecipeIngredientsOf(db, o) # {}
          /\ {row.ingredient : row \in RecipeIngredientsOf(db, o)}
                # {row.ingredient : row \in RecipeIngredientsOf(db, response.id)}

\* C5: an update by the author that fails because an ingredient id of the
\* request does not exist (at whatever position) leaves the recipe's
\* RecipeIngredient rows and tags, and the whole store, as they were.
C5_FailedUpdateKeepsSets ==
    [][(/\ request.op = "update"
        /\ RecipeExists(db, request.target)
        /\ db.recipe[request.target].author = request.user
        /\ WellFormed(request.data)
        /\ MissingIndexes(request.data.ingredients) # {})
        => (/\ response'.status = 400
            /\ response'.error = "ingredient_does_not_exist"
            /\ RecipeIngredientsOf(db', request.target)
                  = RecipeIngredientsOf(db, request.target)
            /\ TagsOf(db', request.target) = TagsOf(db, request.target)
            /\ db' = db)]_vars

C5_Witness ==
    /\ response.op = "update"
    /\ response.error = "ingredient_does_not_exist"
    /\ \E r \in DOMAIN db.recipe :
          /\ Cardinality(RecipeIngredientsOf(db, r)) = 2
          /\ TagsOf(db, r) # {}

\* The request in flight is a create, or an update of an existing recipe by
\* its author: the requests that reach the serializer.
ReachesSerializer ==
    \/ request.op = "create"
    \/ /\ request.op = "update"
       /\ RecipeExists(db, request.target)
       /\ IsAuthor(db, request.user, request.target)

\* C14: a create or update request with an empty or repeating ingredient
\* list or tag list is rejected (400) and writes no row.  The error is keyed
\* by 'ingredients' when the ingredient list is at fault and by 'tags' when
\* only the tag list is, and within one field the message of the empty list
\* differs from the message of the repeating list.
C14_FieldScopedErrors ==
    [][(/\ ReachesSerializer
        /\ \/ Len(request.data.ingredients) = 0
           \/ HasDuplicateIds(request.data.ingredients)
           \/ Len(request.data.tags) = 0
           \/ HasDuplicates(request.data.tags))
        => LET ings == request.data.ingredients
               tags == request.data.tags
               detail == ValidationErrorDetail(response'.error)
               required == ValidationErrorDetail("ingredients_required").message
           IN  /\ response'.status = 400
               /\ db' = db
               /\ detail.field \in {"ingredients", "tags"}
               /\ (detail.field = "ingredients")
                     <=> (Len(ings) = 0 \/ HasDuplicateIds(ings))
               /\ (detail.message = required)
                     <=> IF detail.field = "ingredients" THEN Len(ings) = 0
                         ELSE Len(tags) = 0]_vars

\* An update was rejected for its repeating tags although its ingredient
\* list was in order.
C14_Witness ==
    /\ response.op = "update"
    /\ response.status = 400
    /\ ValidationErrorDetail(response.error)
          = [field |-> "tags", message |-> "Tags must be unique!"]
    /\ DOMAIN db.recipe # {}

\* C15: in every state that create and update requests, successful or
\* failed, leave behind, every Recipe has at least one RecipeIngredient row
\* and at least one tag, no two of its RecipeIngredient rows have the same
\* ingredient, and every amount lies in [1, MAX_VALUE].
C15_RecipeInvariant ==
    \A r \in DOMAIN db.recipe :
        /\ RecipeIngredientsOf(db, r) # {}
        /\ TagsOf(db, r) # {}
        /\ \A x, y \in RecipeIngredientsOf(db, r) :
              (x.ingredient = y.ingredient) => (x = y)
        /\ \A x \in RecipeIngredientsOf(db, r) :
              x.amount >= 1 /\ x.amount <= MAX_VALUE

\* An update with an amount out of range was rejected while a recipe holds
\* the largest amount and another recipe two rows.
C15_Witness ==
    /\ response.op = "update"
    /\ response.error = "ingredients_amount"
    /\ \E row \in db.recipeingredient : row.amount = MAX_VALUE
    /\ \E r \in DOMAIN db.recipe : Cardinality(RecipeIngredientsOf(db, r)) = 2

(***************************************************************************)
(* Properties of the relationship endpoints.                               *)
(***************************************************************************)
AddOps == {"favorite", "shopping_cart", "subscribe"}

RemoveOps == {"delete_favorite", "delete_shopping_cart", "delete_subscribe"}

TableOf(op) ==
    IF op \in {"favorite", "delete_favorite"} THEN "favorite"
    ELSE IF op \in {"shopping_cart", "delete_shopping_cart"} THEN "shoppingcart"
    ELSE "follow"

\* The request in flight addresses a target that exists.
TargetExists ==
    IF TableOf(request.op) = "follow" THEN request.target \in db.user
    ELSE request.target \in DOMAIN db.recipe

RowsFor(d, op, user, target) == CopiesIn(<<user, target>>, d[TableOf(op)])

\* The step inserted (n = 1) or deleted (n = -1) one row of the request's pair
\* and changed nothing else.
OnlyPairChanged(n) ==
    LET t == TableOf(request.op)
    IN  /\ RowsFor(db', request.op, request.user, request.target)
              = RowsFor(db, request.op, request.user, request.target) + n
        /\ \A p \in (BagToSet(db[t]) \cup BagToSet(db'[t])) \ {<<request.user, request.target>>} :
              CopiesIn(p, db'[t]) = CopiesIn(p, db[t])
        /\ \A f \in DOMAIN db \ {t} : db'[f] = db[f]

SequentialGuard(selfFollowFails) ==
    /\ (request.op \in AddOps /\ TargetExists)
          => IF RowsFor(db, request.op, request.user, request.target) > 0
             THEN response'.error = "duplicate" /\ response'.status = 400 /\ db' = db
             ELSE IF selfFollowFails /\ request.op = "subscribe"
                        /\ request.target = request.user
             THEN response'.error = "self_follow" /\ response'.status = 400 /\ db' = db
             ELSE response'.status = 201 /\ OnlyPairChanged(1)
    /\ (request.op \in RemoveOps /\ TargetExists)
          => IF RowsFor(db, request.op, request.user, request.target) = 0
             THEN response'.error = "not_found" /\ response'.status = 400 /\ db' = db
             ELSE /\ response'.status = 204
                  /\ OnlyPairChanged(-1)
                  /\ RowsFor(db', request.op, request.user, request.target) = 0

\* C7 as stated: for favorite, shopping cart and follow, an add of an existing
\* pair fails as a duplicate and changes nothing, a remove of an absent pair
\* fails as not found and changes nothing, an add of an absent pair succeeds
\* and inserts the row, and a remove of an existing pair succeeds and leaves
\* the pair absent.
C7_Original == [][SequentialGuard(FALSE)]_vars

\* C7 as amended: the same, except that a follow of oneself (an absent pair)
\* fails with the self-follow error and inserts nothing.
C7_SequentialAddRemove == [][SequentialGuard(TRUE)]_vars

\* A remove has just succeeded on a pair that an add had inserted.
C7_Witness ==
    /\ response.op \in RemoveOps
    /\ response.status = 204
    /\ db.favorite # EmptyBag
    /\ db.shoppingcart # EmptyBag
    /\ db.follow # EmptyBag

NoSelfFollow == \A u \in UserIds : ~BagIn(<<u, u>>, db.follow)

\* C8: a subscribe request whose author is the caller fails with the
\* self-follow error and inserts nothing, and no Follow row ever has its user
\* equal to its author.
C8_SelfFollowRejected ==
    /\ []NoSelfFollow
    /\ [][(request.op = "subscribe" /\ request.target = request.user)
            => (/\ response'.status = 400
                /\ response'.error = "self_follow"
                /\ db' = db)]_vars

C8_Witness ==
    /\ response.op = "subscribe"
    /\ response.error = "self_follow"
    /\ db.follow # EmptyBag

(***************************************************************************)
(* Properties of the shopping list.                                        *)
(***************************************************************************)
RecipesInCart(d, user) == {r \in DOMAIN d.recipe : BagIn(<<user, r>>, d.shoppingcart)}

AmountIn(d, r, i) ==
    IF \E row \in d.recipeingredient : row.recipe = r /\ row.ingredient = i
    THEN (CHOOSE row \in d.recipeingredient :
            row.recipe = r /\ row.ingredient = i).amount
    ELSE 0

RECURSIVE TotalOf(_, _, _)
TotalOf(d, recipes, i) ==
    IF recipes = {} THEN 0
    ELSE LET r == CHOOSE x \in recipes : TRUE
         IN  AmountIn(d, r, i) + TotalOf(d, recipes \ {r}, i)

IngredientsInCart(d, user) ==
    {i \in DOMAIN Ingredient :
        \E r \in RecipesInCart(d, user) : AmountIn(d, r, i) > 0}

\* C1: the downloaded list of a user has exactly one line per distinct
\* ingredient of the recipes in that user's cart, with the sum of that
\* ingredient's amounts over those recipes, and no other line (so none for an
\* empty cart, and nothing from recipes in other carts or in no cart).
C1_ShoppingListSums ==
    [][(request.op = "download_shopping_cart")
        => LET u == request.user
               body == response'.body
               wanted == IngredientsInCart(db, u)
           IN  /\ response'.status = 200
               /\ Len(body) = Cardinality(wanted)
               /\ \A i \in wanted :
                     Cardinality({k \in DOMAIN body :
                        /\ body[k].name = Ingredient[i].name
                        /\ body[k].measurement_unit = Ingredient[i].measurement_unit}) = 1
               /\ \A i \in wanted : \E k \in DOMAIN body :
                     /\ body[k].name = Ingredient[i].name
                     /\ body[k].measurement_unit = Ingredient[i].measurement_unit
                     /\ body[k].amount = TotalOf(db, RecipesInCart(db, u), i)
               /\ db' = db]_vars

\* A list was downloaded that sums one ingredient over two recipes, while a
\* recipe with a further ingredient is in the other user's cart only.
C1_Witness ==
    /\ response.op = "download_shopping_cart"
    /\ Len(response.body) = 2
    /\ \E k \in DOMAIN response.body :
          response.body[k] = [name |-> "flour", measurement_unit |-> "g", amount |-> 3]
    /\ \E k \in DOMAIN response.body :
          response.body[k].name = "flour" /\ response.body[k].measurement_unit = "kg"
    /\ Cardinality(BagToSet(db.shoppingcart)) >= 3

(***************************************************************************)
(* Properties under concurrency.                                           *)
(***************************************************************************)
\* The requests the clients hold before and after a step.
RequestsOfStep == {proc[c].req : c \in Clients} \cup {proc'[c].req : c \in Clients}

RecipeChanged(r) ==
    \/ RecipeIngredientsOf(db', r) # RecipeIngredientsOf(db, r)
    \/ TagsOf(db', r) # TagsOf(db, r)
    \/ db'.recipe[r] # db.recipe[r]

\* C6: an update replaces the RecipeIngredient set, the tag set and the
\* scalar fields as one unit: every step that commits a change to a recipe
\* leaves it with the ingredient set, the tag set and the scalar fields of
\* one update request, never with the sets of a request and other scalars.
C6_UpdateIsOneUnit ==
    [][\A r \in DOMAIN db.recipe :
          RecipeChanged(r)
            => \E q \in RequestsOfStep :
                  /\ q.op = "update"
                  /\ q.target = r
                  /\ RecipeIngredientsOf(db', r) = RowsOfEntries(r, q.data.ingredients)
                  /\ TagsOf(db', r) = Range(q.data.tags)
                  /\ db'.recipe[r].name = q.data.name]_vars

AtMostOneRow(bag) == \A p \in BagToSet(bag) : CopiesIn(p, bag) <= 1

\* C9: under any interleaving of concurrent add requests, no (user, recipe)
\* pair has more than one Favorite row or more than one ShoppingCart row and
\* no (user, author) pair has more than one Follow row.
C9_UniqueRows ==
    /\ AtMostOneRow(db.favorite)
    /\ AtMostOneRow(db.shoppingcart)
    /\ AtMostOneRow(db.follow)

\* Two requests for one pair both passed the request-time check; the insert
\* of the second was rejected by the constraint.
C9_Witness ==
    \E c1, c2 \in Clients :
        /\ proc[c1].resp = Resp("favorite", 201, "", 0)
        /\ proc[c2].resp = Resp("favorite", 500, "IntegrityError", 0)
        /\ CopiesIn(<<1, 1>>, db.favorite) + CopiesIn(<<2, 1>>, db.favorite) = 1

\* C10: no add request ends in an unhandled fault: a request whose insert the
\* unique constraint rejects ends with the duplicate outcome.
C10_NoUnhandledFault ==
    \A c \in Clients :
        (proc[c].resp.op \in AddOps)
            => (/\ proc[c].resp.status # 500
                /\ proc[c].resp.status \in {201, 400, 404})

\* C11: under any interleaving of concurrent remove requests, a remove
\* request that answers success (204) has deleted exactly one row of its
\* (user, target) pair, so the successes of a pair never outnumber the rows
\* deleted.
C11_SuccessDeletesOneRow ==
    [][\A c \in Clients :
          (/\ proc[c].pc = "delete"
           /\ proc'[c].pc = "idle"
           /\ proc'[c].resp.status = 204)
            => LET q == proc[c].req
               IN  RowsFor(db', q.op, q.user, q.target)
                      = RowsFor(db, q.op, q.user, q.target) - 1]_vars

(***************************************************************************)
(* Properties of the follow listing.                                       *)
(***************************************************************************)
\* The parameter is absent or an integer text.
IsIntegerOrAbsent(GET, name) == (name \in DOMAIN GET) => ParseInt(GET[name]).ok

\* What the claim asks of a list under a limit parameter: all of it when the
\* parameter is absent, zero or negative, its first min(n, size) items when
\* the parameter is a positive n.
Limited(list, GET, name) ==
    LET n == IF name \in DOMAIN GET THEN ParseInt(GET[name]).value ELSE 0
    IN  IF n <= 0 \/ n >= Len(list) THEN list ELSE SubSeq(list, 1, n)

\* C12: in the follow listing of an authenticated caller, with the limit
\* parameters absent or integers, the answer is never a fault; an absent,
\* zero or negative limit gives the whole list and a positive limit n its
\* first min(n, size) items in the stable order, for the followed users
\* (`limit`) and for each followed user's recipes (`recipes_limit`).
C12_LimitBehaviour ==
    [][(/\ request.op = "subscriptions"
        /\ request.user # Anonymous
        /\ IsIntegerOrAbsent(request.data, "limit")
        /\ IsIntegerOrAbsent(request.data, "recipes_limit"))
        => LET GET == request.data
               authors == Limited(Following(db, request.user), GET, "limit")
               body == response'.body
           IN  /\ response'.status = 200
               /\ Len(body) = Len(authors)
               /\ \A i \in DOMAIN authors :
                     /\ body[i].id = authors[i]
                     /\ body[i].recipes
                           = Limited(RecipesOfAuthor(db, authors[i]), GET, "recipes_limit")]_vars

(***************************************************************************)
(* Properties of the life of the join rows.                                *)
(***************************************************************************)
\* Every join row references rows that exist.
ReferencesExist(d) ==
    /\ \A p \in BagToSet(d.favorite) : p[1] \in d.user /\ p[2] \in DOMAIN d.recipe
    /\ \A p \in BagToSet(d.shoppingcart) : p[1] \in d.user /\ p[2] \in DOMAIN d.recipe
    /\ \A p \in BagToSet(d.follow) : p[1] \in d.user /\ p[2] \in d.user
    /\ \A row \in d.recipeingredient : row.recipe \in DOMAIN d.recipe
    /\ \A p \in d.recipe_tags : p[1] \in DOMAIN d.recipe
    /\ \A r \in DOMAIN d.recipe : d.recipe[r].author \in d.user

\* No row of any table references recipe r.
NoRowOfRecipe(d, r) ==
    /\ r \notin DOMAIN d.recipe
    /\ \A p \in BagToSet(d.favorite) \cup BagToSet(d.shoppingcart) : p[2] # r
    /\ \A row \in d.recipeingredient : row.recipe # r
    /\ \A p \in d.recipe_tags : p[1] # r

\* No row of any table references user u.
NoRowOfUser(d, u) ==
    /\ u \notin d.user
    /\ \A p \in BagToSet(d.favorite) \cup BagToSet(d.shoppingcart) : p[1] # u
    /\ \A p \in BagToSet(d.follow) : p[1] # u /\ p[2] # u
    /\ \A r \in DOMAIN d.recipe : d.recipe[r].author # u

\* C13: after any sequence of add, remove, recipe-delete and user-delete
\* requests every Favorite, ShoppingCart, Follow and RecipeIngredient row
\* references a user and a recipe that exist; a successful delete of a recipe
\* or of a user leaves no row that references it; and an add or a remove of a
\* join row leaves the Recipe, RecipeIngredient and recipe-tag tables alone.
C13_JoinRowsReferenceExisting ==
    /\ []ReferencesExist(db)
    /\ [][/\ (request.op = "destroy" /\ response'.status = 204)
                => NoRowOfRecipe(db', request.target)
          /\ (request.op = "delete_user" /\ response'.status = 204)
                => NoRowOfUser(db', request.target)
          /\ (request.op \in AddOps \cup RemoveOps) => SameRecipeTables]_vars

\* A user has deleted their account and with it their recipe, while the other
\* user's recipe and a join row on it remain.
C13_Witness ==
    /\ response.op = "delete_user"
    /\ response.status = 204
    /\ Cardinality(db.user) = 1
    /\ DOMAIN db.recipe # {}
    /\ DOMAIN db.recipe # RecipeIds
    /\ db.favorite # EmptyBag

\* C16: when updates of one recipe run concurrently, each commit leaves the
\* recipe with the RecipeIngredient rows of the committing update's list and
\* no others (the last commit wins, never a union or mixture of two lists),
\* and no update ends in an unhandled fault.
C16_LastCommittedWins ==
    /\ [][\A c \in Clients :
             (proc[c].pc = "commit" /\ proc'[c].pc = "super_update")
               => RecipeIngredientsOf(db', proc[c].req.target)
                     = RowsOfEntries(proc[c].req.target, proc[c].req.data.ingredients)]_vars
    /\ [](\A c \in Clients :
             (proc[c].resp.op = "update") => (proc[c].resp.status # 500))

(***************************************************************************)
(* Properties of the permissions.                                          *)
(***************************************************************************)
WriteOps == {"update", "destroy"}

\* C17: an update or delete of an existing recipe by an anonymous caller or
\* by a user who is not its author is denied (401, 403) and leaves the store
\* as it was, so only the author's update or delete succeeds; a read of an
\* existing recipe is answered (200) for every caller and changes nothing.
C17_OnlyAuthorWrites ==
    [][/\ (/\ request.op \in WriteOps
           /\ RecipeExists(db, request.target)
           /\ db.recipe[request.target].author # request.user)
            => (/\ response'.status \in {401, 403}
                /\ db' = db)
       /\ (request.op \in WriteOps /\ response'.status \in {200, 204})
            => (/\ RecipeExists(db, request.target)
                /\ db.recipe[request.target].author = request.user)
       /\ (request.op = "retrieve" /\ RecipeExists(db, request.target))
            => (/\ response'.status = 200
                /\ response'.body = <<RecipeRead(db, request.target)>>
                /\ db' = db)]_vars

\* A user who is not the author was denied the delete of a recipe that its
\* author had updated before.
C17_Witness ==
    /\ response.op = "destroy"
    /\ response.status = 403
    /\ \E r \in DOMAIN db.recipe : db.recipe[r].name = "cake"

====
